---- MODULE Spec2Model ----
(***************************************************************************)
(* Model of serder (src/serder/src/lib.rs): the DER Length header, the Tag  *)
(* octet combinators and the fixed-width INTEGER codec.                     *)
(*                                                                          *)
(* TLC's integers are 32 bits wide, so every Rust integer wider than one    *)
(* octet is represented by its big-endian two's-complement octets: a u32 is *)
(* a sequence of 4 octets, a usize one of 8, a u128/i128 one of 16.  The    *)
(* widening, narrowing and sign-extending conversions of the code are       *)
(* modelled on those octets.                                                *)
(***************************************************************************)
EXTENDS Integers, Sequences, FiniteSets, TLC

VARIABLES
    pc,      \* position of the driving program
    tag,     \* Tag.0 of the Tag value being built
    tag0,    \* the octet Tag::new was called with
    ops,     \* the combinators applied to it since, oldest first
    prevTag, \* Tag.0 before the last combinator
    len,     \* the Length value held (4 octets), <<>> when none
    buf,     \* the octets written to the writer (a Vec<u8>)
    cur,     \* the reader: the unread rest of the input slice
    items,   \* integers serialized into buf: [t, x, written]
    idx,     \* number of integers deserialized from cur so far
    ret      \* outcome of the last operation

vars == <<pc, tag, tag0, ops, prevTag, len, buf, cur, items, idx, ret>>

tagVars == <<tag, tag0, ops, prevTag>>
codecVars == <<len, buf, cur, items, idx, ret>>

----------------------------------------------------------------------------
(* Bounds of the model *)

MaxOps == 3          \* combinators applied to one Tag
MaxItems == 2        \* integers written to one stream
MaxInputLen == 3     \* octets of an arbitrary decoder input

----------------------------------------------------------------------------
(* Octets and bit operations *)

Byte == 0..255

Zeros(n) == [i \in 1..n |-> 0]

Fill(n, b) == [i \in 1..n |-> b]

RECURSIVE BitAnd(_, _)
BitAnd(a, b) ==
    IF a = 0 \/ b = 0 THEN 0
    ELSE (a % 2) * (b % 2) + 2 * BitAnd(a \div 2, b \div 2)

RECURSIVE BitOr(_, _)
BitOr(a, b) ==
    IF a = 0 THEN b
    ELSE IF b = 0 THEN a
    ELSE (IF a % 2 = 1 \/ b % 2 = 1 THEN 1 ELSE 0) + 2 * BitOr(a \div 2, b \div 2)

\* every zero octet counted, not only the leading run (filter for take_while)
LeadingZeros_Filter(bytes) == Cardinality({i \in 1..Len(bytes) : bytes[i] = 0})

\* bytes.iter().take_while(|b| **b == 0).count()
LeadingZeros(bytes) ==
    IF \A i \in 1..Len(bytes) : bytes[i] = 0 THEN Len(bytes)
    ELSE (CHOOSE i \in 1..Len(bytes) :
              bytes[i] # 0 /\ \A j \in 1..(i - 1) : bytes[j] = 0) - 1

----------------------------------------------------------------------------
(* Tag *)

TagNew(tag_number) == tag_number

universal(t) == BitAnd(t, 63)

\* the class bits set without being cleared first
application_NoClear(t) == BitOr(t, 64)

application(t) == BitOr(BitAnd(t, 63), 64)

context_specific(t) == BitOr(BitAnd(t, 63), 128)

private(t) == BitOr(BitAnd(t, 63), 192)

primitive(t) == BitAnd(t, 223)

constructed(t) == BitOr(BitAnd(t, 223), 32)

into_tag_value(t) == t

BOOLEAN_TAG == into_tag_value(primitive(universal(TagNew(1))))
INTEGER == into_tag_value(primitive(universal(TagNew(2))))
BIT_STRING == into_tag_value(primitive(universal(TagNew(3))))
OCTET_STRING == into_tag_value(primitive(universal(TagNew(4))))
NULL == into_tag_value(primitive(universal(TagNew(5))))
OBJECT_IDENTIFIER == into_tag_value(primitive(universal(TagNew(6))))

ClassOps == {"universal", "application", "context_specific", "private"}
FormOps == {"primitive", "constructed"}

ApplyOp(op, t) ==
    CASE op = "universal" -> universal(t)
      [] op = "application" -> application(t)
      [] op = "context_specific" -> context_specific(t)
      [] op = "private" -> private(t)
      [] op = "primitive" -> primitive(t)
      [] op = "constructed" -> constructed(t)

----------------------------------------------------------------------------
(* Results of the fallible operations.  kind is "Ok", "Err" or "Panic" (an  *)
(* assert!, a slice index out of range: the process unwinds); rest is the   *)
(* reader after the octets consumed so far.                                 *)

Ok(v, rest) == [kind |-> "Ok", val |-> v, err |-> "None", rest |-> rest]

Err(e, rest) == [kind |-> "Err", val |-> <<>>, err |-> e, rest |-> rest]

Panic(rest) == [kind |-> "Panic", val |-> <<>>, err |-> "None", rest |-> rest]

\* impl From<io::Error> for DerError
FromIoError(kind) == IF kind = "UnexpectedEof" THEN "UnexpectedEof" ELSE "Io"

\* impl From<TryFromIntError> for DerError
FromTryFromIntError == "IntValueTooLarge"

DerErrors == {"IntValueTooLarge", "InvalidEncoding", "Io", "UnexpectedEof", "UnexpectedTag"}

----------------------------------------------------------------------------
(* Reads from a &[u8] (byteorder::ReadBytesExt over std's impl Read)        *)

\* bytes.read_u8()?
ReadU8(bytes) ==
    IF Len(bytes) < 1 THEN Err(FromIoError("UnexpectedEof"), bytes)
    ELSE Ok(bytes[1], Tail(bytes))

\* bytes.read_uint::<BigEndian>(nbytes)?: a u64, 8 octets.  The 8-octet
\* scratch buffer is sliced [..nbytes] before the read, and BigEndian's
\* read_uint asserts 1 <= nbytes after it.
ReadUint(bytes, nbytes) ==
    IF nbytes > 8 THEN Panic(bytes)
    ELSE IF nbytes > Len(bytes) THEN Err(FromIoError("UnexpectedEof"), bytes)
    ELSE IF nbytes < 1 THEN Panic(bytes)
    ELSE Ok(Zeros(8 - nbytes) \o SubSeq(bytes, 1, nbytes),
            SubSeq(bytes, nbytes + 1, Len(bytes)))

\* comparisons of a usize (8 octets) with a small number
UsizeLt(n, k) == (\A i \in 1..7 : n[i] = 0) /\ n[8] < k

UsizeGt(n, k) == (\E i \in 1..7 : n[i] # 0) \/ n[8] > k

\* bytes.read_uint128::<BigEndian>(length)?: a u128, 16 octets
ReadUint128(bytes, length) ==
    IF UsizeGt(length, 16) THEN Panic(bytes)
    ELSE IF length[8] > Len(bytes) THEN Err(FromIoError("UnexpectedEof"), bytes)
    ELSE IF length[8] < 1 THEN Panic(bytes)
    ELSE Ok(Zeros(16 - length[8]) \o SubSeq(bytes, 1, length[8]),
            SubSeq(bytes, length[8] + 1, Len(bytes)))

\* byteorder's extend_sign128: (val << shift) as i128 >> shift
ExtendSign128(content) ==
    Fill(16 - Len(content), IF content[1] >= 128 THEN 255 ELSE 0) \o content

\* bytes.read_int128::<BigEndian>(length)?: an i128, 16 octets
ReadInt128(bytes, length) ==
    IF UsizeGt(length, 16) THEN Panic(bytes)
    ELSE IF length[8] > Len(bytes) THEN Err(FromIoError("UnexpectedEof"), bytes)
    ELSE IF length[8] < 1 THEN Panic(bytes)
    ELSE Ok(ExtendSign128(SubSeq(bytes, 1, length[8])),
            SubSeq(bytes, length[8] + 1, Len(bytes)))

----------------------------------------------------------------------------
(* Length *)

\* Length::new: assert!(n > 0)
LengthNew(n) == IF n = Zeros(4) THEN Panic(<<>>) ELSE Ok(n, <<>>)

\* Length::into_usize: self.0 as usize (64-bit target)
into_usize(v) == Zeros(4) \o v

\* the short form taken up to 128 (self.0 > 128)
IsLongForm_OffByOne(v) == v[1] # 0 \/ v[2] # 0 \/ v[3] # 0 \/ v[4] > 128

\* self.0 > 127
IsLongForm(v) == v[1] # 0 \/ v[2] # 0 \/ v[3] # 0 \/ v[4] > 127

\* the header octet not counted in the value returned (len for len + 1)
LengthSerialize_NoHeaderCount(v) ==
    IF IsLongForm(v) THEN
        LET start == LeadingZeros(v)
            n == 4 - start
        IN [out |-> <<BitOr(128, n)>> \o SubSeq(v, start + 1, 4), written |-> n]
    ELSE [out |-> <<v[4]>>, written |-> 1]

\* <Length as DerSerialize>::serialize into a Vec<u8>: the octets written
\* and the count returned
LengthSerialize(v) ==
    IF IsLongForm(v) THEN
        LET start == LeadingZeros(v)
            n == 4 - start
        IN [out |-> <<BitOr(128, n)>> \o SubSeq(v, start + 1, 4), written |-> n + 1]
    ELSE [out |-> <<v[4]>>, written |-> 1]

\* u64 -> u32 try_into()?
TryIntoU32(u) ==
    IF \A i \in 1..4 : u[i] = 0 THEN Ok(SubSeq(u, 5, 8), <<>>)
    ELSE Err(FromTryFromIntError, <<>>)

\* <Length as DerDeserialize>::deserialize
LengthDeserialize(bytes) ==
    LET first == ReadU8(bytes) IN
    IF first.kind # "Ok" THEN first
    ELSE IF first.val > 127 THEN
        LET mask_len == BitAnd(first.val, 127)
            u == ReadUint(first.rest, mask_len)
        IN IF u.kind # "Ok" THEN u
           ELSE LET n == TryIntoU32(u.val) IN
                IF n.kind = "Ok" THEN Ok(n.val, u.rest) ELSE Err(n.err, u.rest)
    ELSE Ok(<<0, 0, 0, first.val>>, first.rest)

----------------------------------------------------------------------------
(* Integer codec *)

Types == {"u8", "i8", "u16", "i16", "u32", "i32", "u64", "i64", "u128", "i128"}

SignedTypes == {"i8", "i16", "i32", "i64", "i128"}

\* std::mem::size_of::<$t>()
SizeOf(t) ==
    CASE t \in {"u8", "i8"} -> 1
      [] t \in {"u16", "i16"} -> 2
      [] t \in {"u32", "i32"} -> 4
      [] t \in {"u64", "i64"} -> 8
      [] t \in {"u128", "i128"} -> 16

\* the Length header's count dropped from the total (written += lost)
IntSerialize_NoLengthCount(t, x) ==
    LET zeros == LeadingZeros(x)
        n == IF SizeOf(t) - zeros = 0 THEN 1 ELSE SizeOf(t) - zeros
        start == IF SizeOf(t) - zeros = 0 THEN Len(x) - 1 ELSE zeros
        length == LengthNew(<<0, 0, 0, n>>)
        hdr == LengthSerialize(length.val)
    IN [out |-> <<INTEGER>> \o hdr.out \o SubSeq(x, start + 1, Len(x)),
        written |-> 1 + n]

\* int_encode!: serialize of a value x of type t (its to_be_bytes octets)
IntSerialize(t, x) ==
    LET zeros == LeadingZeros(x)
        n == IF SizeOf(t) - zeros = 0 THEN 1 ELSE SizeOf(t) - zeros
        start == IF SizeOf(t) - zeros = 0 THEN Len(x) - 1 ELSE zeros
        length == LengthNew(<<0, 0, 0, n>>)
        hdr == LengthSerialize(length.val)
    IN [out |-> <<INTEGER>> \o hdr.out \o SubSeq(x, start + 1, Len(x)),
        written |-> (1 + hdr.written) + n]

\* u128 -> $t try_into()?, the result as the octets of a $t
TryFromU128(t, u) ==
    LET w == SizeOf(t) IN
    IF /\ \A i \in 1..(16 - w) : u[i] = 0
       /\ (t \in SignedTypes => u[17 - w] < 128)
    THEN Ok(SubSeq(u, 17 - w, 16), <<>>)
    ELSE Err(FromTryFromIntError, <<>>)

\* i128 -> $t try_into()?, for a signed $t
TryFromI128(t, s) ==
    LET w == SizeOf(t)
        ext == IF s[17 - w] >= 128 THEN 255 ELSE 0
    IN IF \A i \in 1..(16 - w) : s[i] = ext
       THEN Ok(SubSeq(s, 17 - w, 16), <<>>)
       ELSE Err(FromTryFromIntError, <<>>)

\* a signed type always read sign-extended (the length < size_of branch lost)
IntContent_AlwaysSigned(t, bytes, length) ==
    IF t \in SignedTypes THEN
        LET s == ReadInt128(bytes, length) IN
        IF s.kind # "Ok" THEN s
        ELSE LET v == TryFromI128(t, s.val) IN
             IF v.kind = "Ok" THEN Ok(v.val, s.rest) ELSE Err(v.err, s.rest)
    ELSE
        LET u == ReadUint128(bytes, length) IN
        IF u.kind # "Ok" THEN u
        ELSE LET v == TryFromU128(t, u.val) IN
             IF v.kind = "Ok" THEN Ok(v.val, u.rest) ELSE Err(v.err, u.rest)

\* the content read and narrowed, after the tag and the length
IntContent(t, bytes, length) ==
    IF t \in SignedTypes /\ ~UsizeLt(length, SizeOf(t)) THEN
        LET s == ReadInt128(bytes, length) IN
        IF s.kind # "Ok" THEN s
        ELSE LET v == TryFromI128(t, s.val) IN
             IF v.kind = "Ok" THEN Ok(v.val, s.rest) ELSE Err(v.err, s.rest)
    ELSE
        LET u == ReadUint128(bytes, length) IN
        IF u.kind # "Ok" THEN u
        ELSE LET v == TryFromU128(t, u.val) IN
             IF v.kind = "Ok" THEN Ok(v.val, u.rest) ELSE Err(v.err, u.rest)

\* int_decode! / uint_decode!: deserialize as type t
IntDeserialize(t, bytes) ==
    LET first == ReadU8(bytes) IN
    IF first.kind # "Ok" THEN first
    ELSE IF first.val # INTEGER THEN Err("UnexpectedTag", first.rest)
    ELSE LET l == LengthDeserialize(first.rest) IN
         IF l.kind # "Ok" THEN l
         ELSE IntContent(t, l.rest, into_usize(l.val))

----------------------------------------------------------------------------
(* Inputs the model draws *)

SampleBytes == {0, 1, 127, 128, 255}

\* u32 values handed to Length::new, as big-endian octets
U32Samples ==
    {<<a, b, c, d>> : a \in SampleBytes, b \in SampleBytes,
                      c \in SampleBytes, d \in SampleBytes}
    \cup {<<0, 0, 165, 181>>, <<0, 165, 181, 197>>, <<165, 181, 197, 213>>,
          <<0, 0, 0, 16>>, <<0, 0, 1, 2>>}

\* values of a w-octet integer: k leading octets a, one octet b, the rest c
Patterns(w) ==
    {Fill(k, a) \o <<b>> \o Fill(w - k - 1, c) :
        k \in 0..(w - 1), a \in {0, 255}, b \in SampleBytes, c \in SampleBytes}

\* values of type t serialized in the round trip: every one-octet value,
\* every mix of the sample octets for 2 and 4 octets, patterns above that
Samples(t) ==
    CASE SizeOf(t) = 1 -> {<<b>> : b \in Byte}
      [] SizeOf(t) = 2 -> {<<a, b>> : a \in SampleBytes, b \in SampleBytes}
      [] SizeOf(t) = 4 -> U32Samples
      [] OTHER -> Patterns(SizeOf(t))

\* values of type t written to a stream: 0, 1, -1 or MAX, MIN or 2^(8w-1),
\* 128
StreamSamples(t) ==
    LET w == SizeOf(t) IN
    {Zeros(w), Zeros(w - 1) \o <<1>>, Fill(w, 255),
     <<128>> \o Zeros(w - 1), Zeros(w - 1) \o <<128>>}

\* octets of an arbitrary decoder input
InputBytes == {0, 1, 2, 17, 127, 128, 129, 133, 137, 255}

RECURSIVE SeqsUpTo(_, _)
SeqsUpTo(S, n) ==
    IF n = 0 THEN {<<>>}
    ELSE LET shorter == SeqsUpTo(S, n - 1) IN
         shorter \cup {Append(q, b) : q \in shorter, b \in S}

Inputs ==
    SeqsUpTo(InputBytes, MaxInputLen)
    \cup {<<133, 171, 205, 239, 136, 153>>, <<132, 171, 205, 239, 87>>,
          <<2, 132, 0, 0, 0, 1, 255>>, <<2, 2, 255, 255>>, <<2, 2, 1, 0>>,
          <<2, 2, 0, 255>>, <<2, 129, 1, 255>>,
          <<2, 17>> \o Zeros(16) \o <<1>>}

----------------------------------------------------------------------------
(* State machine *)

NoRet == [op |-> "none", t |-> "none", kind |-> "None", val |-> <<>>,
          err |-> "None", written |-> 0, consumed |-> 0]

TagIdle == tag = 0 /\ tag0 = 0 /\ ops = <<>> /\ prevTag = 0

CodecIdle ==
    len = <<>> /\ buf = <<>> /\ cur = <<>> /\ items = <<>> /\ idx = 0 /\ ret = NoRet

\* Tag::new(tag_number)
TagInit ==
    /\ pc = "tag"
    /\ tag0 \in Byte
    /\ tag = TagNew(tag0)
    /\ prevTag = tag
    /\ ops = <<>>
    /\ CodecIdle

\* what every combinator step records besides the new octet
Applied(op) ==
    /\ prevTag' = tag
    /\ ops' = Append(ops, op)
    /\ UNCHANGED <<pc, tag0>>
    /\ UNCHANGED codecVars

Universal ==
    /\ pc = "tag" /\ Len(ops) < MaxOps
    /\ tag' = universal(tag)
    /\ Applied("universal")

Application ==
    /\ pc = "tag" /\ Len(ops) < MaxOps
    /\ tag' = application(tag)
    /\ Applied("application")

ContextSpecific ==
    /\ pc = "tag" /\ Len(ops) < MaxOps
    /\ tag' = context_specific(tag)
    /\ Applied("context_specific")

Private ==
    /\ pc = "tag" /\ Len(ops) < MaxOps
    /\ tag' = private(tag)
    /\ Applied("private")

Primitive ==
    /\ pc = "tag" /\ Len(ops) < MaxOps
    /\ tag' = primitive(tag)
    /\ Applied("primitive")

Constructed ==
    /\ pc = "tag" /\ Len(ops) < MaxOps
    /\ tag' = constructed(tag)
    /\ Applied("constructed")

TagNext ==
    \/ Universal
    \/ Application
    \/ ContextSpecific
    \/ Private
    \/ Primitive
    \/ Constructed

SpecTag == TagInit /\ [][TagNext]_vars

\* the reader after a failed operation: std's read_exact on a slice leaves
\* the slice as it was or empties it, depending on the toolchain
RestAfter(r) == IF r.kind = "Err" /\ r.err = "UnexpectedEof" THEN {r.rest, <<>>} ELSE {r.rest}

\* Length::new(n)
LengthNewStep ==
    /\ pc = "len_new"
    /\ \E n \in U32Samples :
        LET r == LengthNew(n) IN
        /\ len' = r.val
        /\ ret' = [NoRet EXCEPT !.op = "Length::new", !.kind = r.kind, !.val = r.val]
        /\ pc' = IF r.kind = "Panic" THEN "aborted" ELSE "len_ser"
    /\ UNCHANGED <<buf, cur, items, idx>>
    /\ UNCHANGED tagVars

\* len.serialize(&mut buf)
LengthSerializeStep ==
    /\ pc = "len_ser"
    /\ LET w == LengthSerialize(len) IN
        /\ buf' = buf \o w.out
        /\ ret' = [NoRet EXCEPT !.op = "Length::serialize", !.kind = "Ok",
                                !.written = w.written]
    /\ pc' = "len_open"
    /\ UNCHANGED <<len, cur, items, idx>>
    /\ UNCHANGED tagVars

\* &mut &buf[..]: a reader over the octets written
ReaderOpen ==
    /\ pc \in {"len_open", "int_ser"}
    /\ pc = "int_ser" => items # <<>>
    /\ cur' = buf
    /\ pc' = IF pc = "len_open" THEN "len_de" ELSE "int_de"
    /\ UNCHANGED <<len, buf, items, idx, ret>>
    /\ UNCHANGED tagVars

\* Length::deserialize(&mut cur)
LengthDeserializeStep ==
    /\ pc \in {"len_de", "decode"}
    /\ LET r == LengthDeserialize(cur) IN
        /\ \E rest \in RestAfter(r) : cur' = rest
        /\ ret' = [NoRet EXCEPT !.op = "Length::deserialize", !.kind = r.kind,
                                !.val = r.val, !.err = r.err,
                                !.consumed = Len(cur) - Len(r.rest)]
        /\ pc' = IF r.kind = "Panic" THEN "aborted" ELSE "done"
    /\ UNCHANGED <<len, buf, items, idx>>
    /\ UNCHANGED tagVars

\* x.serialize(&mut buf) for an x of type t
IntSerializeOf(t, x) ==
    LET w == IntSerialize(t, x) IN
    /\ buf' = buf \o w.out
    /\ items' = Append(items, [t |-> t, x |-> x, written |-> w.written])
    /\ ret' = [NoRet EXCEPT !.op = "serialize", !.t = t, !.kind = "Ok",
                            !.written = w.written]
    /\ UNCHANGED <<pc, len, cur, idx>>
    /\ UNCHANGED tagVars

\* one more integer appended to the stream
IntSerializeStep ==
    /\ pc = "int_ser"
    /\ Len(items) < MaxItems
    /\ \E t \in Types : \E x \in StreamSamples(t) : IntSerializeOf(t, x)

\* one integer serialized into an empty buffer
IntSerializeOnce ==
    /\ pc = "int_ser"
    /\ items = <<>>
    /\ \E t \in Types : \E x \in Samples(t) : IntSerializeOf(t, x)

\* <t>::deserialize(&mut cur)
IntDeserializeAs(t) ==
    LET r == IntDeserialize(t, cur) IN
    /\ \E rest \in RestAfter(r) : cur' = rest
    /\ ret' = [NoRet EXCEPT !.op = "deserialize", !.t = t, !.kind = r.kind,
                            !.val = r.val, !.err = r.err,
                            !.consumed = Len(cur) - Len(r.rest)]
    /\ idx' = idx + 1
    /\ pc' = CASE r.kind = "Panic" -> "aborted"
               [] r.kind = "Err" -> "done"
               [] pc = "int_de" /\ idx + 1 < Len(items) -> "int_de"
               [] OTHER -> "done"
    /\ UNCHANGED <<len, buf, items>>
    /\ UNCHANGED tagVars

\* the next integer of the stream, read back with the type it was written as
IntDeserializeStep ==
    /\ pc = "int_de"
    /\ idx < Len(items)
    /\ IntDeserializeAs(items[idx + 1].t)

\* an arbitrary input decoded as any of the types
IntDecodeStep ==
    /\ pc = "decode"
    /\ \E t \in Types : IntDeserializeAs(t)

LengthInit == pc = "len_new" /\ TagIdle /\ CodecIdle

LengthNext ==
    \/ LengthNewStep
    \/ LengthSerializeStep
    \/ ReaderOpen
    \/ LengthDeserializeStep

SpecLength == LengthInit /\ [][LengthNext]_vars

IntInit == pc = "int_ser" /\ TagIdle /\ CodecIdle

IntNext ==
    \/ IntSerializeOnce
    \/ ReaderOpen
    \/ IntDeserializeStep

SpecInt == IntInit /\ [][IntNext]_vars

Init == IntInit

Next ==
    \/ IntSerializeStep
    \/ ReaderOpen
    \/ IntDeserializeStep

Spec == Init /\ [][Next]_vars

DecodeInit ==
    /\ pc = "decode"
    /\ TagIdle
    /\ buf \in Inputs
    /\ cur = buf
    /\ len = <<>> /\ items = <<>> /\ idx = 0 /\ ret = NoRet

DecodeNext ==
    \/ LengthDeserializeStep
    \/ IntDecodeStep

SpecDecode == DecodeInit /\ [][DecodeNext]_vars

----------------------------------------------------------------------------
(* Properties *)

\* the w-octet value with the magnitude of at most w content octets
ZeroExtend(content, w) == Zeros(w - Len(content)) \o content

\* C1: integer round trip: deserializing as T the octets written by
\* serializing a value x of T returns Ok(x), for every type and every value,
\* zero, MIN, MAX and the negative ones included.
C1_IntRoundTrip ==
    ret.op = "deserialize" =>
        /\ ret.kind = "Ok"
        /\ ret.val = items[idx].x
        /\ ret.t = items[idx].t

\* the negative i16 0xFF80 read back
C1_Witness ==
    /\ ret.op = "deserialize"
    /\ ret.kind = "Ok"
    /\ items[1].t = "i16"
    /\ items[1].x = <<255, 128>>
    /\ ret.val = <<255, 128>>

\* C2: Length round trip: Length::deserialize of the octets written by
\* Length::new(v).serialize returns Ok(Length(v)), for every v >= 1.
C2_LengthRoundTrip ==
    ret.op = "Length::deserialize" =>
        /\ ret.kind = "Ok"
        /\ ret.val = len

C2_Witness ==
    /\ ret.op = "Length::deserialize"
    /\ len = <<255, 255, 255, 255>>
    /\ ret.kind = "Ok"

\* C3: Length encode is canonical: a value v <= 127 is written as the one
\* octet v and 1 is returned; a value v > 127 is written as the header
\* octet 0x80 | n, n in 1..4, then exactly n octets, the big-endian
\* representation of v with a non-zero first octet, and n + 1 is returned,
\* the number of octets written.
C3_LengthCanonical ==
    ret.op = "Length::serialize" =>
        IF len[1] = 0 /\ len[2] = 0 /\ len[3] = 0 /\ len[4] <= 127
        THEN buf = <<len[4]>> /\ ret.written = 1
        ELSE \E n \in 1..4 :
                /\ buf[1] = 128 + n
                /\ Len(buf) = n + 1
                /\ buf[2] # 0
                /\ ZeroExtend(Tail(buf), 4) = len
                /\ ret.written = n + 1

C3_Witness ==
    /\ ret.op = "Length::serialize"
    /\ len = <<0, 0, 165, 181>>
    /\ buf = <<130, 165, 181>>

\* C4: integer encode format: the octet 0x02, then the Length header of the
\* content octet count (one short-form octet, the count being at most 16),
\* then the content: x's native-width big-endian octets with the leading
\* 0x00 octets removed but at least one octet kept (zero is 02 01 00); the
\* count returned is tag + header + content, the number of octets written.
C4_IntEncodeFormat ==
    ret.op = "serialize" =>
        LET x == items[1].x
            n == Len(buf) - 2
            content == SubSeq(buf, 3, Len(buf))
        IN /\ n \in 1..Len(x)
           /\ buf[1] = 2
           /\ buf[2] = n
           /\ content = SubSeq(x, Len(x) - n + 1, Len(x))
           /\ \A i \in 1..(Len(x) - n) : x[i] = 0
           /\ n = 1 \/ content[1] # 0
           /\ ret.written = Len(buf)
           /\ ret.written = (1 + 1) + n
           /\ x = Zeros(Len(x)) => buf = <<2, 1, 0>>

C4_Witness ==
    /\ ret.op = "serialize"
    /\ items[1].x = <<0, 1, 0, 0>>
    /\ buf = <<2, 3, 1, 0, 0>>

RECURSIVE Replay(_, _)
Replay(t, s) == IF s = <<>> THEN t ELSE Replay(ApplyOp(s[1], t), Tail(s))

ClassCode(op) ==
    CASE op = "universal" -> 0
      [] op = "application" -> 1
      [] op = "context_specific" -> 2
      [] op = "private" -> 3

FormBit(op) == IF op = "constructed" THEN 1 ELSE 0

LastOf(kind) ==
    LET at == {i \in 1..Len(ops) : ops[i] \in kind} IN
    IF at = {} THEN "none" ELSE ops[CHOOSE i \in at : \A j \in at : j <= i]

\* C9: tag combinators compose by bit field: a class combinator sets bits
\* 7-6 to its code and leaves bits 5-0; primitive/constructed sets bit 5 and
\* leaves bits 7-6 and 4-0; a class combinator and a primitive/constructed
\* one give the same octet in either order; of several combinators on one
\* field the last one decides it; Tag::new(5).universal().primitive() is
\* 0x05 and .constructed() after it gives 0x25.
C9_TagCombinators ==
    /\ ops # <<>> /\ ops[Len(ops)] \in ClassOps =>
          /\ tag \div 64 = ClassCode(ops[Len(ops)])
          /\ tag % 64 = prevTag % 64
    /\ ops # <<>> /\ ops[Len(ops)] \in FormOps =>
          /\ (tag \div 32) % 2 = FormBit(ops[Len(ops)])
          /\ tag \div 64 = prevTag \div 64
          /\ tag % 32 = prevTag % 32
    /\ Len(ops) >= 2 =>
          LET n == Len(ops)
              a == ops[n - 1]
              b == ops[n]
          IN (a \in ClassOps /\ b \in FormOps) \/ (a \in FormOps /\ b \in ClassOps) =>
                 tag = Replay(tag0, SubSeq(ops, 1, n - 2) \o <<b, a>>)
    /\ tag \div 64 = IF LastOf(ClassOps) = "none" THEN tag0 \div 64
                     ELSE ClassCode(LastOf(ClassOps))
    /\ (tag \div 32) % 2 = IF LastOf(FormOps) = "none" THEN (tag0 \div 32) % 2
                           ELSE FormBit(LastOf(FormOps))
    /\ tag % 32 = tag0 % 32
    /\ tag0 = 5 /\ ops = <<"universal", "primitive">> => tag = 5
    /\ tag0 = 5 /\ ops = <<"universal", "primitive", "constructed">> => tag = 37

\* context_specific, then application, then constructed on an octet with all
\* bits set
C9_Witness ==
    /\ tag0 = 255
    /\ ops = <<"context_specific", "application", "constructed">>
    /\ tag = 127

\* C10: stream framing: integers serialized one after another into one
\* buffer are deserialized, with the same types in the same order from one
\* reader, to the same values; each deserialize advances the reader by the
\* count the matching serialize returned, and the reader is empty after the
\* last.
C10_StreamFraming ==
    /\ ret.op = "deserialize" =>
          /\ ret.kind = "Ok"
          /\ ret.val = items[idx].x
          /\ ret.consumed = items[idx].written
    /\ ret.op = "deserialize" /\ idx = Len(items) => cur = <<>>

C10_Witness ==
    /\ ret.op = "deserialize"
    /\ Len(items) = 2
    /\ idx = 2
    /\ items[1].t = "i64"
    /\ items[2].t = "u16"
    /\ items[1].x = Fill(8, 255)
    /\ cur = <<>>

----------------------------------------------------------------------------
(* Decoding of arbitrary input *)

\* octets of the length header that starts b: the first octet, and the
\* length-of-length octets it declares
HeaderLen(b) == IF b[1] > 127 THEN 1 + (b[1] - 128) ELSE 1

\* the octets that spell the declared length, when the header is whole
Digits(b) == IF b[1] > 127 THEN SubSeq(b, 2, HeaderLen(b)) ELSE <<b[1]>>

\* the number spelt by octets d against a number k < 256
DigitsGt(d, k) == d # <<>> /\ ((\E i \in 1..(Len(d) - 1) : d[i] # 0) \/ d[Len(d)] > k)

DigitsEq(d, k) == d # <<>> /\ (\A i \in 1..(Len(d) - 1) : d[i] = 0) /\ d[Len(d)] = k

\* the number spelt by d fits a u32
DigitsFitU32(d) == \A i \in 1..(Len(d) - 4) : d[i] = 0

\* b holds fewer octets than Length::deserialize requires
ShortForLength(b) == Len(b) = 0 \/ Len(b) < HeaderLen(b)

\* b holds fewer octets than an integer deserialize requires: no tag, no
\* length octet, too few length-of-length octets, or fewer content octets
\* than the length declared
ShortForInt(b) ==
    \/ Len(b) = 0
    \/ /\ b[1] = 2
       /\ \/ ShortForLength(Tail(b))
          \/ /\ DigitsFitU32(Digits(Tail(b)))
             /\ DigitsGt(Digits(Tail(b)), Len(b) - 1 - HeaderLen(Tail(b)))

\* C5: decoding never terminates the process: on every input
\* Length::deserialize and the integer deserialize of every type return
\* Ok(value) or Err with one of the DerError kinds.
C5_DecodeNeverAborts ==
    ret.op \in {"Length::deserialize", "deserialize"} =>
        /\ ret.kind \in {"Ok", "Err"}
        /\ ret.kind = "Err" => ret.err \in DerErrors

\* C6: short reads surface as UnexpectedEof: when the input holds fewer
\* octets than the operation requires, for every declared count n of
\* length-of-length octets and every declared length L, the result is
\* Err(UnexpectedEof).
C6_ShortReadIsEof ==
    /\ ret.op = "Length::deserialize" /\ ShortForLength(buf) =>
          ret.kind = "Err" /\ ret.err = "UnexpectedEof"
    /\ ret.op = "deserialize" /\ ShortForInt(buf) =>
          ret.kind = "Err" /\ ret.err = "UnexpectedEof"

\* C7: every Length handed to a caller, built by Length::new or returned as
\* Ok by Length::deserialize, has value >= 1.
C7_LengthAtLeastOne ==
    ret.op \in {"Length::new", "Length::deserialize"} /\ ret.kind = "Ok" =>
        ret.val # Zeros(4)

\* b is the INTEGER tag, a whole length header spelling L >= 1, and exactly
\* L content octets
WholeInteger(b) ==
    /\ Len(b) >= 2
    /\ b[1] = 2
    /\ ~ShortForLength(Tail(b))
    /\ Len(b) - 1 - HeaderLen(Tail(b)) \in 1..255
    /\ DigitsEq(Digits(Tail(b)), Len(b) - 1 - HeaderLen(Tail(b)))

ContentOf(b) == SubSeq(b, 2 + HeaderLen(Tail(b)), Len(b))

\* what the signed decode rule gives for content octets c and a type of w
\* octets: the unsigned magnitude when Len(c) < w, else the sign-extended
\* value when it is in the type's range
SignedRule(c, w) ==
    IF Len(c) < w THEN Ok(ZeroExtend(c, w), <<>>)
    ELSE IF \A i \in 1..(Len(c) - w) :
                c[i] = (IF c[Len(c) - w + 1] >= 128 THEN 255 ELSE 0)
    THEN Ok(SubSeq(c, Len(c) - w + 1, Len(c)), <<>>)
    ELSE Err("IntValueTooLarge", <<>>)

\* C8: signed integer decode rule: for a signed type of w octets and an
\* input 0x02, a Length L, L content octets: the content is an unsigned
\* magnitude when L < w and a sign-extended two's-complement integer when
\* L >= w; the result is Ok(value) when that value is in the type's range
\* and Err(IntValueTooLarge) when it is not.
C8_SignedDecodeRule ==
    ret.op = "deserialize" /\ ret.t \in SignedTypes /\ WholeInteger(buf) =>
        /\ ret.kind = SignedRule(ContentOf(buf), SizeOf(ret.t)).kind
        /\ ret.val = SignedRule(ContentOf(buf), SizeOf(ret.t)).val
        /\ ret.err = SignedRule(ContentOf(buf), SizeOf(ret.t)).err

\* The rule of C8 for the lengths the read accepts, 1 <= L <= 16.
SignedDecodeRuleUpTo16 ==
    Len(buf) >= 2 /\ Len(ContentOf(buf)) <= 16 => C8_SignedDecodeRule

\* the length header that starts h, if any, declares at most 8
\* length-of-length octets and a length of at most 16
HeaderInRange(h) ==
    \/ h = <<>>
    \/ h[1] <= 16
    \/ h[1] \in 128..136 /\ (ShortForLength(h) \/ ~DigitsGt(Digits(h), 16))

\* The short reads of C6 that declare at most 8 length-of-length octets and
\* a length of at most 16 are UnexpectedEof.
ShortReadIsEofInRange ==
    /\ buf = <<>> \/ buf[1] <= 136 => C6_ShortReadIsEof!1
    /\ buf = <<>> \/ HeaderInRange(Tail(buf)) => C6_ShortReadIsEof!2

\* one of the short reads in that range has been seen
ShortReadSeen ==
    /\ ret.op = "deserialize"
    /\ ret.err = "UnexpectedEof"
    /\ buf \in {<<2, 129>>, <<2, 2, 255>>, <<2, 133, 0, 0>>}

====
